---- MODULE Spec2Model ----
(***************************************************************************)
(* The listing mode of the line editor (edit/listing.go): a selection      *)
(* index, a filter text and the page size of the last render, driven by    *)
(* navigation, filter and render operations over an entry provider.        *)
(*                                                                         *)
(* Entries are indexed from 0 as in the code.  A string is a sequence of   *)
(* bytes (0..255).  A rendered entry is a sequence of lines, a line being  *)
(* the pair <<entry index, line number>>.                                  *)
(***************************************************************************)
EXTENDS Integers, Sequences, FiniteSets, TLC

\* ------------------------------------------------------------- bounds
\* Largest number of entries a provider holds.
MaxCount == 3
\* Largest number of lines one rendered entry has.
MaxLines == 2
\* Largest maxHeight handed to List.
MaxHeight == 3
\* Longest filter text, in bytes.
MaxFilterBytes == 3
\* How far below -1 the model follows the selection.
MaxUnder == 1
\* Most operations of a recorded run.
MaxRun == 4
\* Most entries and rows of a direct call of renderScrollbar.
MaxEntries == 22
MaxRows == 11

Max(a, b) == IF a >= b THEN a ELSE b
Min(a, b) == IF a <= b THEN a ELSE b

\* ------------------------------------------------------------- UTF-8
\* string(rune): the UTF-8 encoding of a rune, U+FFFD for an invalid one.
EncodeRune(r) ==
    IF r < 0 \/ r > 1114111 \/ (r >= 55296 /\ r <= 57343) THEN <<239, 191, 189>>
    ELSE IF r < 128 THEN <<r>>
    ELSE IF r < 2048 THEN <<192 + (r \div 64), 128 + (r % 64)>>
    ELSE IF r < 65536
         THEN <<224 + (r \div 4096), 128 + ((r \div 64) % 64), 128 + (r % 64)>>
    ELSE <<240 + (r \div 262144), 128 + ((r \div 4096) % 64),
           128 + ((r \div 64) % 64), 128 + (r % 64)>>

\* utf8.RuneStart: the byte is not a continuation byte.
RuneStart(b) == (b \div 64) # 2

\* The size utf8.DecodeRuneInString reports for the rune at the head of s:
\* the length of a well-formed encoding, 1 for an invalid or short one.
DecodeRuneSize(s) ==
    LET n  == Len(s)
        b0 == s[1]
        need == IF b0 < 128 THEN 1
                ELSE IF b0 >= 194 /\ b0 <= 223 THEN 2
                ELSE IF b0 >= 224 /\ b0 <= 239 THEN 3
                ELSE IF b0 >= 240 /\ b0 <= 244 THEN 4
                ELSE 0
        lo2 == IF b0 = 224 THEN 160 ELSE IF b0 = 240 THEN 144 ELSE 128
        hi2 == IF b0 = 237 THEN 159 ELSE IF b0 = 244 THEN 143 ELSE 191
    IN  IF need = 0 \/ n < need THEN 1
        ELSE IF need = 1 THEN 1
        ELSE IF s[2] < lo2 \/ s[2] > hi2 THEN 1
        ELSE IF \E k \in 3..need : s[k] < 128 \/ s[k] > 191 THEN 1
        ELSE need

\* The size utf8.DecodeLastRuneInString reports: 0 for the empty string,
\* the length of the last rune's encoding, 1 when the tail is not well formed.
DecodeLastRuneSize(s) ==
    LET end == Len(s)
    IN  IF end = 0 THEN 0
        ELSE IF s[end] < 128 THEN 1
        ELSE LET lim    == Max(end - 4, 0)
                 \* 0-based start offsets as in the code: start runs down from
                 \* end-2 to lim and stops at the first rune start.
                 cands  == {k \in lim..(end - 2) : RuneStart(s[k + 1])}
                 start0 == IF cands = {} THEN lim - 1
                           ELSE CHOOSE k \in cands : \A j \in cands : j <= k
                 start  == Max(start0, 0)
                 size   == DecodeRuneSize(SubSeq(s, start + 1, end))
             IN  IF start + size # end THEN 1 ELSE size

\* ------------------------------------------------------------- provider
\* The provider behind the listing: all its entries (the line count of each),
\* the entries passing the current filter, the index its Filter picks and
\* whether it implements Placeholderer.
Picks == {"first", "last", "none"}

\* A provider starts empty or with MaxCount entries; the filter narrows the
\* set to every length in between.
Providers ==
    [all : {<<>>} \cup [1..MaxCount -> 1..MaxLines], pick : Picks, placeholder : BOOLEAN]

\* Each byte of filter text drops one more entry from the end of the set.
Matching(all, text) == SubSeq(all, 1, Max(0, Len(all) - Len(text)))

\* provider.Filter(text): the entries now passing and the index to select.
ProviderFilter(p, text) ==
    LET kept == Matching(p.all, text)
        n    == Len(kept)
    IN  [filtered |-> kept,
         index    |-> IF n = 0 \/ p.pick = "none" THEN -1
                      ELSE IF p.pick = "first" THEN 0
                      ELSE n - 1]

\* provider.Show(i, w): the lines of entry i.
ProviderShow(filtered, i) == [k \in 1..filtered[i + 1] |-> <<i, k>>]

\* provider.Placeholder(), or the generic text when the provider has none.
PlaceholderText(p) == IF p.placeholder THEN "provider placeholder" ELSE "(no result)"

\* ------------------------------------------------------------- scrollbar
\* A direct call of renderScrollbar: its arguments and result, and whether the
\* build fuses x*y + z into one rounding.
VARIABLE scroll

\* float64 arithmetic on the values f of findScrollInterval meets: a value
\* is a whole part and sixty fraction bits in three limbs of twenty bits,
\* which holds every float64 from 1/128 up to 4095 exactly.
Limb == 2 ^ 20

RECURSIVE BitLen(_)
\* The number of binary digits of x.
BitLen(x) == IF x = 0 THEN 0 ELSE 1 + BitLen(x \div 2)

\* The value with every limb brought below Limb.
Float64Carry(int, l1, l2, l3) ==
    LET m3 == l3 % Limb
        c3 == l2 + l3 \div Limb
        m2 == c3 % Limb
        c2 == l1 + c3 \div Limb
        m1 == c2 % Limb
    IN  [int |-> int + c2 \div Limb, l1 |-> m1, l2 |-> m2, l3 |-> m3]

\* The float64 nearest to x, ties to the even significand; sticky says that
\* the exact value is a little above x.  A float64 has 53 significant bits,
\* so `drop` fraction bits go.
Float64Round(x, sticky) ==
    LET drop == IF x.int > 0 THEN 7 + BitLen(x.int) ELSE BitLen(x.l1) - 13
    IN  IF drop <= 0 THEN x
        ELSE LET unit == 2 ^ drop
                 tail == x.l3 % unit
                 kept == x.l3 - tail
                 odd  == (kept \div unit) % 2 = 1
                 up   == \/ 2 * tail > unit
                         \/ 2 * tail = unit /\ (sticky \/ odd)
             IN  Float64Carry(x.int, x.l1, x.l2, kept + (IF up THEN unit ELSE 0))

\* float64(i) / float64(n), 0 <= i <= n, by long division.
Float64Quo(i, n) ==
    LET a1 == (i % n) * Limb
        a2 == (a1 % n) * Limb
        a3 == (a2 % n) * Limb
    IN  Float64Round([int |-> i \div n, l1 |-> a1 \div n, l2 |-> a2 \div n,
                      l3 |-> a3 \div n],
                     a3 % n # 0)

\* The exact product x * float64(h).
Float64Times(x, h) == Float64Carry(x.int * h, x.l1 * h, x.l2 * h, x.l3 * h)

\* The exact sum x + 0.5.
Float64PlusHalf(x) == Float64Carry(x.int, x.l1 + Limb \div 2, x.l2, x.l3)

\* int(float64(i)/float64(n)*float64(height) + 0.5).  A build may compute
\* x*y + 0.5 fused, with one rounding instead of two.
ScrollMapFloat(i, n, height, fused) ==
    LET exact   == Float64Times(Float64Quo(i, n), height)
        product == IF fused THEN exact ELSE Float64Round(exact, FALSE)
    IN  Float64Round(Float64PlusHalf(product), FALSE).int

\* i * height / n rounded to the nearest integer, halves up.
RoundHalfUp(i, n, height) == (2 * i * height + n) \div (2 * n)

\* On the inputs a listing of at most MaxCount entries and MaxHeight rows
\* produces, every build's float64 result is RoundHalfUp.
ShortcutIsExact ==
    \A n \in 1..MaxCount, height \in 0..MaxHeight, i \in 0..MaxCount, b \in BOOLEAN :
        i <= n => ScrollMapFloat(i, n, height, b) = RoundHalfUp(i, n, height)

\* f of findScrollInterval; where ShortcutIsExact speaks, by RoundHalfUp.
ScrollMap(i, n, height) ==
    IF n <= MaxCount /\ height <= MaxHeight THEN RoundHalfUp(i, n, height)
    ELSE ScrollMapFloat(i, n, height, scroll.fused)

findScrollInterval(n, low, high, height) ==
    LET scrollLow  == ScrollMap(low, n, height)
        scrollHigh == ScrollMap(high, n, height)
    IN  IF scrollLow = scrollHigh
        THEN IF scrollHigh = high
             THEN <<scrollLow - 1, scrollHigh>>
             ELSE <<scrollLow, scrollHigh + 1>>
        ELSE <<scrollLow, scrollHigh>>

\* The column renderScrollbar writes: one glyph per row of the height.
renderScrollbar(n, low, high, height) ==
    LET iv == findScrollInterval(n, low, high, height)
    IN  [i \in 1..height |->
            IF iv[1] <= i - 1 /\ i - 1 < iv[2] THEN "thumb" ELSE "track"]

\* ------------------------------------------------------------- window
\* The entry the window grows from.
Seed(sel) == IF sel = -1 THEN 0 ELSE sel

\* An elision at the top that keeps the head of the entry.
ElideLeadingKeepsHead(lines, over) == SubSeq(lines, 1, Len(lines) - over)

\* lines[over:]: drop the first `over` lines.
ElideLeading(lines, over) == SubSeq(lines, over + 1, Len(lines))

\* An elision that keeps every line.
ElideNothing(lines, over) == lines

\* lines[:len(lines)-over]: drop the last `over` lines.
ElideTrailing(lines, over) == SubSeq(lines, 1, Len(lines) - over)

\* A loop condition that stops at the first end of the set the window reaches.
GrowingUntilEitherEnd(w, n, maxHeight) ==
    w.height < maxHeight /\ ~(w.low = 0 \/ w.high = n)

\* A loop condition that lets a full budget through once more.
GrowingOneMore(w, n, maxHeight) == w.height <= maxHeight /\ ~(w.low = 0 /\ w.high = n)

\* The loop condition of List.
Growing(w, n, maxHeight) == w.height < maxHeight /\ ~(w.low = 0 /\ w.high = n)

\* A loop body that starts at the lower side.
ExtendsLowFirst(w, n) == (~w.extendLow /\ w.low > 0) \/ w.high = n

\* Which side the loop body extends.
ExtendsLow(w, n) == (w.extendLow /\ w.low > 0) \/ w.high = n

\* One pass of the loop body.  Show on an index outside the provider's entries
\* panics (an index out of range in the provider's slice).
ExtendStep(w, shown, maxHeight) ==
    LET n     == Len(shown)
        lower == ExtendsLow(w, n)
        i     == IF lower THEN w.low - 1 ELSE w.high
    IN  IF i < 0 \/ i >= n
        THEN [w EXCEPT !.panic = TRUE, !.asked = @ \cup {i}]
        ELSE LET s     == ProviderShow(shown, i)
                 total == w.height + Len(s)
                 over  == total - maxHeight
                 kept  == IF total <= maxHeight THEN s
                          ELSE IF lower THEN ElideLeading(s, over)
                          ELSE ElideTrailing(s, over)
             IN  [low       |-> IF lower THEN i ELSE w.low,
                  high      |-> IF lower THEN w.high ELSE i + 1,
                  height    |-> IF total > maxHeight THEN maxHeight ELSE total,
                  extendLow |-> ~w.extendLow,
                  entries   |-> IF lower THEN <<kept>> \o w.entries
                                ELSE Append(w.entries, kept),
                  asked     |-> w.asked \cup {i},
                  iters     |-> w.iters + 1,
                  panic     |-> FALSE]

RECURSIVE Collect(_, _, _)
Collect(w, shown, maxHeight) ==
    IF w.panic \/ ~Growing(w, Len(shown), maxHeight) THEN w
    ELSE Collect(ExtendStep(w, shown, maxHeight), shown, maxHeight)

\* The scrollbar test of List.
NeedScrollbar(n, low, high) == low > 0 \/ high < n - 1

\* The window of a List call, as the loop leaves it.
Window(sel, shown, maxHeight) ==
    Collect([low |-> Seed(sel), high |-> Seed(sel), height |-> 0,
             extendLow |-> FALSE, entries |-> <<>>, asked |-> {},
             iters |-> 0, panic |-> FALSE],
            shown, maxHeight)

\* What a render leaves behind; every render result has this shape.
NoView ==
    [kind |-> "none", text |-> "", low |-> 0, high |-> 0, height |-> 0,
     entries |-> <<>>, styled |-> {}, width |-> 0, scrollbar |-> FALSE,
     thumb |-> <<0, 0>>, bar |-> <<>>, iters |-> 0]

\* The buffer List returns for a non-empty provider.
ListView(sel, shown, width, maxHeight) ==
    LET n   == Len(shown)
        w   == Window(sel, shown, maxHeight)
        bar == NeedScrollbar(n, w.low, w.high)
    IN  [kind      |-> "window",
         text      |-> "",
         low       |-> w.low,
         high      |-> w.high,
         height    |-> w.height,
         entries   |-> w.entries,
         styled    |-> {i \in w.low..(w.high - 1) : i = sel},
         width     |-> IF bar THEN width - 1 ELSE width,
         scrollbar |-> bar,
         thumb     |-> IF bar THEN findScrollInterval(n, w.low, w.high, w.height)
                       ELSE <<0, 0>>,
         bar       |-> IF bar THEN renderScrollbar(n, w.low, w.high, w.height)
                       ELSE <<>>,
         iters     |-> w.iters]

\* ------------------------------------------------------------- state
VARIABLES
    selected,   \* listing.selected
    filter,     \* listing.filter, as bytes
    pagesize,   \* listing.pagesize
    provider,   \* listing.provider: what the provider is made of
    shown,      \* the provider's entries passing its last Filter call
    op,         \* the last operation called, with its arguments
    ret,        \* what the last operation returned
    calls,      \* the provider methods the last operation called
    view,       \* the buffer the last operation returned, NoView if none
    crashed,    \* a provider call has panicked
    trail       \* a recorded run: the listing after each operation; <<>> when
                \* the run is not recorded

vars == <<selected, filter, pagesize, provider, shown, op, ret, calls, view, crashed,
          trail, scroll>>

\* The keys the editor hands to the listing: a letter of one byte (a), a
\* character of three bytes (the euro sign), Tab and a letter with Ctrl.
NoKey == [Rune |-> 0, Mod |-> 0]
Keys ==
    {[Rune |-> 97, Mod |-> 0], [Rune |-> 8364, Mod |-> 0],
     [Rune |-> 9, Mod |-> 0], [Rune |-> 97, Mod |-> 4]}

\* likeChar(k): a key without modifier whose rune is a graphic character.
likeChar(k) == k.Mod = 0 /\ k.Rune >= 32 /\ k.Rune # 127

\* The widths of the listing area.
Widths == {3}

Call(name) ==
    [name |-> name, cycle |-> FALSE, width |-> 0, maxHeight |-> 0, key |-> NoKey,
     text |-> <<>>]

\* No direct call of renderScrollbar.
NoScroll ==
    [n |-> 0, low |-> 0, high |-> 0, height |-> 0, fused |-> FALSE, done |-> FALSE,
     thumb |-> <<0, 0>>, bar |-> <<>>]

\* A recorded run gains the listing as the operation leaves it, and ends after
\* MaxRun operations.
Record ==
    /\ Len(trail) <= MaxRun
    /\ trail' = IF trail = <<>> THEN trail
                ELSE Append(trail, [op |-> op', ret |-> ret', selected |-> selected',
                                    filter |-> filter', pagesize |-> pagesize',
                                    shown |-> shown', low |-> view'.low,
                                    high |-> view'.high])
    /\ UNCHANGED scroll

\* provider.Len()
Count == Len(shown)

\* ------------------------------------------------------------- navigation
\* listing.up without its return on an empty provider.
upNoEmptyCheck(sel, n, cycle) ==
    IF sel - 1 = -1 THEN (IF cycle THEN sel - 1 + n ELSE sel) ELSE sel - 1

\* What listing.up leaves in l.selected, n being provider.Len().
upSelected(sel, n, cycle) ==
    IF n = 0 THEN sel
    ELSE IF sel - 1 = -1 THEN (IF cycle THEN sel - 1 + n ELSE sel)
    ELSE sel - 1

\* A down that stays at the last entry whatever cycle says.
downClamping(sel, n, cycle) ==
    IF n = 0 THEN sel
    ELSE IF sel + 1 = n THEN sel
    ELSE sel + 1

\* What listing.down leaves in l.selected.
downSelected(sel, n, cycle) ==
    IF n = 0 THEN sel
    ELSE IF sel + 1 = n THEN (IF cycle THEN sel + 1 - n ELSE sel)
    ELSE sel + 1

\* What listing.pageUp leaves in l.selected.
pageUpSelected(sel, n, size) ==
    IF n = 0 THEN sel
    ELSE IF sel - size < 0 THEN 0
    ELSE sel - size

\* listing.pageDown wrapping around instead of clamping.
pageDownWrapping(sel, n, size) ==
    IF n = 0 THEN sel ELSE (sel + size) % n

\* What listing.pageDown leaves in l.selected.
pageDownSelected(sel, n, size) ==
    IF n = 0 THEN sel
    ELSE IF sel + size >= n THEN n - 1
    ELSE sel + size

\* What an operation that renders nothing and returns nothing leaves.
Plain(name, called) ==
    /\ op' = Call(name)
    /\ ret' = "void"
    /\ calls' = called
    /\ view' = NoView

up(cycle) ==
    /\ ~crashed
    /\ selected > -1 - MaxUnder
    /\ selected' = upSelected(selected, Count, cycle)
    /\ op' = [Call("up") EXCEPT !.cycle = cycle]
    /\ ret' = "void" /\ calls' = {"Len"} /\ view' = NoView
    /\ UNCHANGED <<filter, pagesize, provider, shown, crashed>>
    /\ Record

down(cycle) ==
    /\ ~crashed
    /\ selected' = downSelected(selected, Count, cycle)
    /\ op' = [Call("down") EXCEPT !.cycle = cycle]
    /\ ret' = "void" /\ calls' = {"Len"} /\ view' = NoView
    /\ UNCHANGED <<filter, pagesize, provider, shown, crashed>>
    /\ Record

pageUp ==
    /\ ~crashed
    /\ selected' = pageUpSelected(selected, Count, pagesize)
    /\ Plain("pageUp", {"Len"})
    /\ UNCHANGED <<filter, pagesize, provider, shown, crashed>>
    /\ Record

pageDown ==
    /\ ~crashed
    /\ selected' = pageDownSelected(selected, Count, pagesize)
    /\ Plain("pageDown", {"Len"})
    /\ UNCHANGED <<filter, pagesize, provider, shown, crashed>>
    /\ Record

accept ==
    /\ ~crashed
    /\ Plain("accept", IF selected >= 0 THEN {"Accept"} ELSE {})
    /\ UNCHANGED <<selected, filter, pagesize, provider, shown, crashed>>
    /\ Record

\* ------------------------------------------------------------- filter
\* changeFilter without line 171: the selection is not taken from Filter.
changeFilterKeepingSelection(newfilter) ==
    LET r == ProviderFilter(provider, newfilter)
    IN  /\ filter' = newfilter
        /\ selected' = selected
        /\ shown' = r.filtered

\* changeFilter adding to the filter instead of replacing it.
changeFilterAppending(newfilter) ==
    LET r == ProviderFilter(provider, filter \o newfilter)
    IN  /\ filter' = filter \o newfilter
        /\ selected' = r.index
        /\ shown' = r.filtered

changeFilter(newfilter) ==
    LET r == ProviderFilter(provider, newfilter)
    IN  /\ filter' = newfilter
        /\ selected' = r.index
        /\ shown' = r.filtered

\* changeFilter called on its own, as newListing does.
changeFilterCall(newfilter) ==
    /\ ~crashed
    /\ op' = [Call("changeFilter") EXCEPT !.text = newfilter]
    /\ ret' = "void" /\ calls' = {"Filter"}
    /\ view' = NoView
    /\ changeFilter(newfilter)
    /\ UNCHANGED <<pagesize, provider, crashed>>
    /\ Record

\* The filter text without its last byte.
WithoutLastByte(text) == SubSeq(text, 1, Len(text) - 1)

\* The filter text without its last rune.
WithoutLast(text) == SubSeq(text, 1, Len(text) - DecodeLastRuneSize(text))

backspace ==
    /\ ~crashed
    /\ op' = Call("backspace")
    /\ view' = NoView
    /\ IF DecodeLastRuneSize(filter) > 0
       THEN /\ changeFilter(WithoutLast(filter))
            /\ ret' = "true" /\ calls' = {"Filter"}
       ELSE /\ ret' = "false" /\ calls' = {}
            /\ UNCHANGED <<selected, filter, shown>>
    /\ UNCHANGED <<pagesize, provider, crashed>>
    /\ Record

handleFilterKey(k) ==
    /\ ~crashed
    /\ likeChar(k) => Len(filter) + Len(EncodeRune(k.Rune)) <= MaxFilterBytes
    /\ op' = [Call("handleFilterKey") EXCEPT !.key = k]
    /\ view' = NoView
    /\ IF likeChar(k)
       THEN /\ changeFilter(filter \o EncodeRune(k.Rune))
            /\ ret' = "true" /\ calls' = {"Filter"}
       ELSE /\ ret' = "false" /\ calls' = {}
            /\ UNCHANGED <<selected, filter, shown>>
    /\ UNCHANGED <<pagesize, provider, crashed>>
    /\ Record

\* ------------------------------------------------------------- rendering
\* ModeLine running the filter again before it renders.
ModeLineRefiltering(width) ==
    /\ ~crashed
    /\ op' = [Call("ModeLine") EXCEPT !.width = width]
    /\ ret' = "buffer" /\ calls' = {"Filter", "ModeTitle"}
    /\ view' = [NoView EXCEPT !.kind = "modeline", !.width = width]
    /\ changeFilter(filter)
    /\ UNCHANGED <<pagesize, provider, crashed>>
    /\ Record

ModeLine(width) ==
    /\ ~crashed
    /\ op' = [Call("ModeLine") EXCEPT !.width = width]
    /\ ret' = "buffer" /\ calls' = {"ModeTitle"}
    /\ view' = [NoView EXCEPT !.kind = "modeline", !.width = width]
    /\ UNCHANGED <<selected, filter, pagesize, provider, shown, crashed>>
    /\ Record

List(width, maxHeight) ==
    /\ ~crashed
    /\ op' = [Call("List") EXCEPT !.width = width, !.maxHeight = maxHeight]
    /\ IF Count = 0
       THEN /\ view' = [NoView EXCEPT !.kind = "placeholder", !.width = width,
                                      !.text = PlaceholderText(provider)]
            /\ calls' = {"Len"} \cup (IF provider.placeholder THEN {"Placeholder"} ELSE {})
            /\ ret' = "buffer"
            /\ UNCHANGED <<pagesize, crashed>>
       ELSE LET w == Window(selected, shown, maxHeight)
            IN  /\ calls' = {"Len"} \cup (IF w.asked = {} THEN {} ELSE {"Show"})
                /\ IF w.panic
                   THEN /\ crashed' = TRUE
                        /\ ret' = "panic"
                        /\ view' = NoView
                        /\ UNCHANGED pagesize
                   ELSE /\ view' = ListView(selected, shown, width, maxHeight)
                        /\ pagesize' = w.high - w.low
                        /\ ret' = "buffer"
                        /\ UNCHANGED crashed
    /\ UNCHANGED <<selected, filter, provider, shown>>
    /\ Record

\* ------------------------------------------------------------- specification
\* newListing: the filter is empty and the provider's Filter has picked the
\* selection.
Init ==
    /\ provider \in Providers
    /\ filter = <<>>
    /\ selected = ProviderFilter(provider, <<>>).index
    /\ shown = ProviderFilter(provider, <<>>).filtered
    /\ pagesize = 0
    /\ op = Call("newListing")
    /\ ret = "void"
    /\ calls = {"Filter"}
    /\ view = NoView
    /\ crashed = FALSE
    /\ trail = <<>>
    /\ scroll = NoScroll

Next ==
    \/ \E cycle \in BOOLEAN : up(cycle)
    \/ \E cycle \in BOOLEAN : down(cycle)
    \/ pageUp
    \/ pageDown
    \/ accept
    \/ backspace
    \/ \E k \in Keys : handleFilterKey(k)
    \/ \E width \in Widths : ModeLine(width)
    \/ \E width \in Widths, maxHeight \in 0..MaxHeight : List(width, maxHeight)

Spec == Init /\ [][Next]_vars

\* ------------------------------------------------------------- recorded runs
\* Providers of one-line entries, for runs whose subject is the selection
\* and the filter rather than the layout.
RunProviders ==
    {p \in Providers : ~p.placeholder /\ \A i \in DOMAIN p.all : p.all[i] = 1}

\* A fresh listing whose run is recorded from construction on.
InitRun ==
    /\ provider \in RunProviders
    /\ filter = <<>>
    /\ selected = ProviderFilter(provider, <<>>).index
    /\ shown = ProviderFilter(provider, <<>>).filtered
    /\ pagesize = 0
    /\ op = Call("newListing")
    /\ ret = "void"
    /\ calls = {"Filter"}
    /\ view = NoView
    /\ crashed = FALSE
    /\ trail = <<[op |-> op, ret |-> ret, selected |-> selected, filter |-> filter,
                  pagesize |-> pagesize, shown |-> shown, low |-> view.low,
                  high |-> view.high]>>
    /\ scroll = NoScroll

\* The keys of a typing run: those of Keys and a two-byte rune.
RoundKeys == Keys \cup {[Rune |-> 233, Mod |-> 0]}

\* Typing and erasing, with navigation in between.
NextRound ==
    \/ \E cycle \in BOOLEAN : down(cycle)
    \/ \E k \in RoundKeys : handleFilterKey(k)
    \/ backspace

SpecRound == InitRun /\ [][NextRound]_vars

\* The filter texts a run sets directly.
FilterTexts == {<<>>, <<97>>, <<97, 97>>}

\* Setting the filter, with navigation and rendering in between.
NextFilter ==
    \/ down(TRUE)
    \/ \E t \in FilterTexts : changeFilterCall(t)
    \/ \E width \in Widths, maxHeight \in {1, MaxHeight} : List(width, maxHeight)

SpecFilter == InitRun /\ [][NextFilter]_vars

\* Cycling through the entries, with typing that changes how many there are.
NextCycle ==
    \/ up(TRUE)
    \/ down(TRUE)
    \/ \E k \in Keys : handleFilterKey(k)

SpecCycle == InitRun /\ [][NextCycle]_vars

\* ------------------------------------------------------------- scrollbar calls
\* renderScrollbar called on its own.
renderScrollbarCall(n, low, high, height) ==
    /\ ~scroll.done
    /\ low <= high /\ high <= n
    /\ scroll' = [scroll EXCEPT !.n = n, !.low = low, !.high = high,
                                !.height = height, !.done = TRUE,
                                !.thumb = findScrollInterval(n, low, high, height),
                                !.bar = renderScrollbar(n, low, high, height)]
    /\ UNCHANGED <<selected, filter, pagesize, provider, shown, op, ret, calls,
                   view, crashed, trail>>

\* A listing of no entries, on either build.
InitScroll ==
    /\ provider = [all |-> <<>>, pick |-> "none", placeholder |-> FALSE]
    /\ filter = <<>>
    /\ selected = -1
    /\ shown = <<>>
    /\ pagesize = 0
    /\ op = Call("newListing")
    /\ ret = "void"
    /\ calls = {"Filter"}
    /\ view = NoView
    /\ crashed = FALSE
    /\ trail = <<>>
    /\ scroll \in {[NoScroll EXCEPT !.fused = b] : b \in BOOLEAN}

\* One call, on any window of any number of entries.
NextScroll ==
    /\ ~scroll.done
    /\ \E n \in 1..MaxEntries : \E high \in 0..n : \E low \in 0..high :
          \E height \in 1..MaxRows : renderScrollbarCall(n, low, high, height)

SpecScroll == InitScroll /\ [][NextScroll]_vars

\* ------------------------------------------------------------- properties
RECURSIVE Total(_)
\* The sum of a sequence of numbers.
Total(q) == IF q = <<>> THEN 0 ELSE Head(q) + Total(Tail(q))

\* The number of lines each block of the last window kept.
Kept == [i \in 1..Len(view.entries) |-> Len(view.entries[i])]

\* The navigation operations.
Navigation == {"up", "down", "pageUp", "pageDown"}

\* C1: whatever navigation is done, the selection stays within [-1, count-1]
\* (so within [0, count-1] once there is a selection).
C1_SelectedInRange == selected >= -1 /\ selected <= Count - 1

\* C2: every List call on a non-empty provider with maxHeight >= 1 realizes a
\* window [low, high) with 0 <= low <= high <= count that holds the selection,
\* or index 0 when nothing is selected.
C2_WindowHoldsSelection ==
    (op.name = "List" /\ Count > 0 /\ op.maxHeight >= 1) =>
        /\ view.kind = "window"
        /\ 0 <= view.low /\ view.low <= view.high /\ view.high <= Count
        /\ selected >= 0 => (view.low <= selected /\ selected < view.high)
        /\ selected = -1 => (view.low = 0 /\ view.high > 0)

\* The part of C2 that holds: the same, for a selection within [-1, count-1].
C2_WindowHoldsSelectionInRange ==
    (selected >= -1 /\ selected < Count) => C2_WindowHoldsSelection

\* C3: the lines kept across the blocks of a window never exceed maxHeight,
\* and neither does the number of its entries.
C3_WithinBudget ==
    view.kind = "window" =>
        /\ Len(view.entries) = view.high - view.low
        /\ Total(Kept) <= op.maxHeight
        /\ view.high - view.low <= op.maxHeight

C3_Witness ==
    /\ view.kind = "window"
    /\ op.maxHeight = 1
    /\ selected >= 0
    /\ shown[selected + 1] > op.maxHeight
    /\ Total(Kept) = op.maxHeight

\* C4: when all the entries together have no more lines than maxHeight, the
\* window is the whole set and no entry is cut.
C4_FullWindow ==
    (op.name = "List" /\ Count > 0 /\ selected >= -1 /\ selected < Count
        /\ Total(shown) <= op.maxHeight) =>
        /\ view.kind = "window"
        /\ view.low = 0 /\ view.high = Count
        /\ Kept = shown

C4_Witness ==
    /\ op.name = "List" /\ view.kind = "window"
    /\ Count = MaxCount
    /\ selected = 1
    /\ Total(shown) = op.maxHeight
    /\ view.low = 0 /\ view.high = Count

\* C5: the thumb [slow, shigh) of a scrollbar of h > 0 rows is not empty and
\* lies within the rows 0..h.
C5_ThumbWithinTrack ==
    (view.scrollbar /\ view.height > 0) =>
        /\ 0 <= view.thumb[1]
        /\ view.thumb[1] < view.thumb[2]
        /\ view.thumb[2] <= view.height

\* C6: a window has a scrollbar, on a column taken from the width, exactly
\* when it is a proper part of the entries.
C6_ScrollbarIffProperWindow ==
    view.kind = "window" =>
        /\ view.scrollbar <=> (view.low > 0 \/ view.high < Count)
        /\ view.scrollbar =>
              /\ view.width = op.width - 1
              /\ view.bar = renderScrollbar(Count, view.low, view.high, view.height)
        /\ ~view.scrollbar => (view.width = op.width /\ view.bar = <<>>)

\* C7: on a non-empty provider up decrements the selection and down increments
\* it; a result below 0 becomes count-1 with cycle and 0 without, a result above
\* count-1 becomes 0 with cycle and count-1 without.
C7_UpDownWrapOrClamp ==
    [][/\ (op'.name = "up" /\ Count > 0) =>
              selected' = IF selected - 1 < 0
                          THEN (IF op'.cycle THEN Count - 1 ELSE 0)
                          ELSE selected - 1
       /\ (op'.name = "down" /\ Count > 0) =>
              selected' = IF selected + 1 > Count - 1
                          THEN (IF op'.cycle THEN 0 ELSE Count - 1)
                          ELSE selected + 1]_vars

\* C8: pageUp and pageDown move the selection by the stored page size and
\* clamp it to 0 and count-1, changing neither the page size nor the filter;
\* the page size is 0 at first and only a List call changes it.
C8_PagingByStoredPageSize ==
    /\ pagesize = 0
    /\ [][/\ (op'.name = "pageUp" /\ Count > 0) =>
                 /\ selected' = Max(0, selected - pagesize)
                 /\ UNCHANGED <<pagesize, filter>>
          /\ (op'.name = "pageDown" /\ Count > 0) =>
                 /\ selected' = Min(Count - 1, selected + pagesize)
                 /\ UNCHANGED <<pagesize, filter>>
          /\ pagesize' # pagesize => op'.name = "List"]_vars

\* A page down by a page size that an earlier render of more entries stored.
C8_Witness ==
    /\ op.name = "pageDown"
    /\ Count > 0
    /\ pagesize > Count
    /\ selected = Count - 1

\* C9: on an empty provider navigation changes nothing, List returns only the
\* placeholder without rendering an entry, and only a Filter call ends this.
C9_EmptyIsInert ==
    [][/\ (Count = 0 /\ op'.name \in Navigation) =>
              UNCHANGED <<selected, filter, pagesize>>
       /\ (Count = 0 /\ op'.name = "List") =>
              /\ UNCHANGED <<selected, filter, pagesize>>
              /\ view'.kind = "placeholder"
              /\ view'.text = IF provider.placeholder THEN "provider placeholder"
                              ELSE "(no result)"
              /\ view'.entries = <<>>
              /\ "Show" \notin calls'
              /\ provider.placeholder <=> "Placeholder" \in calls'
       /\ (Count = 0 /\ Count' > 0) => "Filter" \in calls']_vars

\* A page down on an empty provider with a page size left by an earlier render.
C9_Witness ==
    /\ Count = 0
    /\ op.name = "pageDown"
    /\ pagesize > 0
    /\ selected = -1

\* The runes of the keys that are characters.
Typed == {k.Rune : k \in {x \in Keys : likeChar(x)}}

\* C10: backspace on an empty filter returns false and changes nothing without
\* calling Filter; otherwise it removes the whole last character, returns true
\* and selects what Filter returns for the shortened text.
C10_Backspace ==
    [][op'.name = "backspace" =>
          IF filter = <<>>
          THEN /\ ret' = "false"
               /\ UNCHANGED <<selected, filter, pagesize>>
               /\ "Filter" \notin calls'
          ELSE /\ ret' = "true"
               /\ \E r \in Typed : filter = filter' \o EncodeRune(r)
               /\ "Filter" \in calls'
               /\ selected' = ProviderFilter(provider, filter').index
               /\ UNCHANGED pagesize]_vars

\* A backspace that emptied the filter of a provider that selects its last entry.
C10_Witness ==
    /\ op.name = "backspace"
    /\ ret = "true"
    /\ filter = <<>>
    /\ Count = MaxCount
    /\ selected = Count - 1

\* C11: in a recorded run, a printable key accepted by handleFilterKey appends
\* its encoding to the filter, and a backspace right after it returns true,
\* puts the filter back to the text before the key, and leaves the selection
\* at the index Filter gives for that text, whatever the selection was before.
C11_AppendThenBackspace ==
    \A i \in 2..(Len(trail) - 1) :
        (/\ trail[i].op.name = "handleFilterKey"
         /\ likeChar(trail[i].op.key)
         /\ trail[i + 1].op.name = "backspace")
        => /\ trail[i].ret = "true"
           /\ trail[i].filter = trail[i - 1].filter \o EncodeRune(trail[i].op.key.Rune)
           /\ trail[i + 1].ret = "true"
           /\ trail[i + 1].filter = trail[i - 1].filter
           /\ trail[i + 1].selected = ProviderFilter(provider, trail[i - 1].filter).index

\* A two-byte rune is typed after a one-byte one and after navigation that
\* moved the selection, then erased.
C11_Witness ==
    /\ Len(trail) = 5
    /\ trail[2].op.name = "handleFilterKey" /\ Len(trail[2].filter) = 1
    /\ trail[3].op.name = "down" /\ trail[3].selected # trail[2].selected
    /\ trail[4].op.name = "handleFilterKey" /\ trail[4].op.key.Rune = 233
    /\ trail[4].ret = "true"
    /\ trail[5].op.name = "backspace" /\ trail[5].filter = trail[2].filter
    /\ trail[5].selected # trail[3].selected

\* C12: in a recorded run, changeFilter(t) right after changeFilter(t) leaves
\* the filter, the selection and the shown entries as the first call left them,
\* so List computes the same window for every height, and a List call that
\* follows returns the window computed from the state after the first call.
C12_ChangeFilterTwice ==
    \A i \in 2..(Len(trail) - 1) :
        (/\ trail[i].op.name = "changeFilter"
         /\ trail[i + 1].op = trail[i].op)
        => /\ trail[i + 1].filter = trail[i].op.text
           /\ trail[i + 1].filter = trail[i].filter
           /\ trail[i + 1].selected = trail[i].selected
           /\ trail[i + 1].shown = trail[i].shown
           /\ \A maxHeight \in 0..MaxHeight :
                  Window(trail[i + 1].selected, trail[i + 1].shown, maxHeight)
                  = Window(trail[i].selected, trail[i].shown, maxHeight)
           /\ (i + 2 <= Len(trail) /\ trail[i + 2].op.name = "List")
              => LET w == Window(trail[i].selected, trail[i].shown,
                                 trail[i + 2].op.maxHeight)
                 IN  /\ trail[i + 2].low = w.low
                     /\ trail[i + 2].high = w.high

\* After navigation, a non-empty text is set twice and a window of several
\* entries is rendered.
C12_Witness ==
    /\ Len(trail) = 5
    /\ trail[2].op.name = "down" /\ trail[2].selected # trail[1].selected
    /\ trail[3].op.name = "changeFilter" /\ trail[3].op.text = <<97>>
    /\ trail[3].selected # trail[2].selected
    /\ trail[4].op = trail[3].op
    /\ trail[5].op.name = "List" /\ trail[5].high - trail[5].low >= 2

\* C13: when List has returned a buffer, pagesize is the size high - low of
\* the window this call realized, the empty window for an empty provider.
C13_PageSizeIsWindowSize ==
    (op.name = "List" /\ ret = "buffer") => pagesize = view.high - view.low

\* C14: a ModeLine or List step leaves selected, filter and the provider's
\* entries alone and calls neither Filter nor Accept; ModeLine leaves pagesize
\* alone too; and a List step right after a List step with the same arguments
\* returns the same buffer and leaves the same pagesize.
C14_RenderingOnlyReads ==
    [][op'.name \in {"ModeLine", "List"} =>
          /\ UNCHANGED <<selected, filter, shown, provider>>
          /\ calls' \cap {"Filter", "Accept"} = {}
          /\ op'.name = "ModeLine" => UNCHANGED pagesize
          /\ (op.name = "List" /\ op' = op) =>
                 /\ ret' = ret
                 /\ view' = view
                 /\ pagesize' = pagesize]_vars

\* List has rendered a window and stored its size, with a typed filter and a
\* selection that navigation moved off Filter's choice.
C14_Witness ==
    /\ op.name = "List" /\ view.kind = "window"
    /\ filter # <<>>
    /\ selected >= 0 /\ selected # ProviderFilter(provider, filter).index
    /\ view.high - view.low >= 2
    /\ pagesize = view.high - view.low

\* C15: a window List returns for maxHeight >= 1 holds the seed, stops only
\* at the height budget or at [0, count), and has as many entries from the seed
\* on as before it, or one more, unless it touches an end of the set, where
\* the other side has the surplus.  When every entry is one line, its size is
\* m = min(maxHeight, count) and its low is
\* min(max(seed - floor(maxHeight / 2), 0), count - m).
C15_AlternatingWindow ==
    (op.name = "List" /\ view.kind = "window" /\ op.maxHeight >= 1) =>
        LET H     == op.maxHeight
            s     == Seed(selected)
            upper == view.high - s
            lower == s - view.low
            m     == Min(H, Count)
        IN  /\ view.low <= s /\ s < view.high
            /\ view.height = H \/ (view.low = 0 /\ view.high = Count)
            /\ (view.low > 0 /\ view.high < Count) => upper - lower \in {0, 1}
            /\ (view.low = 0 /\ view.high < Count) => upper >= lower
            /\ (view.low > 0 /\ view.high = Count) => upper <= lower + 1
            /\ (\A i \in 1..Count : shown[i] = 1) =>
                   /\ view.high - view.low = m
                   /\ view.low = Min(Max(s - H \div 2, 0), Count - m)

\* One-line entries: the seed is added first, then the entry above it, and the
\* budget of two lines ends the loop before the window spans the set.
C15_Witness ==
    /\ op.name = "List" /\ view.kind = "window" /\ op.maxHeight = 2
    /\ Count = 3 /\ \A i \in 1..Count : shown[i] = 1
    /\ selected = 1
    /\ view.low = 0 /\ view.high = 2

\* C16: in a window List returns at most one block has fewer lines than its
\* entry; it is the first or the last block, and it fills what the other
\* blocks left of maxHeight.  A cut last block (the seed alone included) is
\* the first lines of its entry, a cut first block above other blocks is the
\* last lines of its entry, and every other block is its whole entry.  A seed
\* taller than maxHeight >= 1 is shown alone by its first maxHeight lines.
C16_OneCutAtAnEdge ==
    (op.name = "List" /\ view.kind = "window") =>
        LET n       == Len(view.entries)
            whole   == [i \in 1..n |-> ProviderShow(shown, view.low + i - 1)]
            cut     == {i \in 1..n : view.entries[i] # whole[i]}
            s       == Seed(selected)
        IN  /\ Cardinality(cut) <= 1
            /\ \A i \in cut :
                  LET r == op.maxHeight - (Total(Kept) - Kept[i])
                  IN  /\ i = 1 \/ i = n
                      /\ r > 0 /\ r < Len(whole[i])
                      /\ view.height = op.maxHeight
                      /\ i = n => view.entries[i] = SubSeq(whole[i], 1, r)
                      /\ (i = 1 /\ n > 1) =>
                             view.entries[i]
                             = SubSeq(whole[i], Len(whole[i]) - r + 1, Len(whole[i]))
            /\ (op.maxHeight >= 1 /\ s < Count /\ shown[s + 1] > op.maxHeight) =>
                   /\ view.low = s /\ view.high = s + 1
                   /\ view.entries
                      = <<SubSeq(ProviderShow(shown, s), 1, op.maxHeight)>>

\* The entry above the seed is added last and overflows: the top block is
\* its last line only.
C16_Witness ==
    /\ op.name = "List" /\ view.kind = "window"
    /\ Len(view.entries) >= 2
    /\ view.low < Seed(selected)
    /\ shown[view.low + 1] = 2
    /\ view.entries[1] = <<<<view.low, 2>>>>

\* C17: when both ends of the window map to the same row of a scrollbar of
\* h > 0 rows, the thumb is that row and the next one down, unless the row is
\* the rendered height h, and then it is the row before it up to h.
C17_WidenByOneRow ==
    (view.kind = "window" /\ view.scrollbar /\ view.height > 0) =>
        LET scrollLow  == ScrollMap(view.low, Count, view.height)
            scrollHigh == ScrollMap(view.high, Count, view.height)
        IN  scrollLow = scrollHigh =>
                view.thumb = IF scrollHigh = view.height
                             THEN <<scrollLow - 1, scrollHigh>>
                             ELSE <<scrollLow, scrollHigh + 1>>

\* C19: for a non-empty provider and a selection in [-1, count-1] List
\* returns a window after at most min(maxHeight, count) passes of its loop;
\* every pass added one entry of the window and at least one line, and the
\* loop ended with the height at maxHeight or the window at [0, count).
C19_LoopIsBounded ==
    (op.name = "List" /\ Count >= 1 /\ selected >= -1 /\ selected < Count) =>
        /\ ret = "buffer" /\ view.kind = "window"
        /\ view.iters <= Min(op.maxHeight, Count)
        /\ view.iters = view.high - view.low
        /\ view.iters = Len(view.entries)
        /\ \A i \in 1..Len(view.entries) : Kept[i] >= 1
        /\ view.height = Total(Kept)
        /\ view.height = op.maxHeight \/ (view.low = 0 /\ view.high = Count)

\* The loop ran maxHeight times and stopped at the budget, short of the whole
\* set.
C19_Witness ==
    /\ op.name = "List" /\ view.kind = "window"
    /\ op.maxHeight >= 2
    /\ view.iters = op.maxHeight
    /\ view.height = op.maxHeight
    /\ view.high - view.low < Count

\* The entries i+1..i+k of the recorded run are all calls of `name` with cycle.
Repeated(name, i, k) ==
    \A j \in (i + 1)..(i + k) :
        trail[j].op.name = name /\ trail[j].op.cycle

\* C20: in a recorded run, from a selection in [0, count-1] on a non-empty
\* provider, down(true) then up(true) and up(true) then down(true) give the
\* selection back, and count calls of down(true) in a row, or of up(true),
\* select every index once and end on the selection they started from.
C20_CyclingIsARotation ==
    \A i \in 1..Len(trail) :
        LET n == Len(trail[i].shown)
            s == trail[i].selected
        IN  (n >= 1 /\ s >= 0 /\ s < n) =>
                /\ (i + 2 <= Len(trail) /\ Repeated("down", i, 1)
                        /\ Repeated("up", i + 1, 1))
                   => trail[i + 2].selected = s
                /\ (i + 2 <= Len(trail) /\ Repeated("up", i, 1)
                        /\ Repeated("down", i + 1, 1))
                   => trail[i + 2].selected = s
                /\ \A name \in {"up", "down"} :
                      (i + n <= Len(trail) /\ Repeated(name, i, n))
                      => /\ trail[i + n].selected = s
                         /\ {trail[j].selected : j \in (i + 1)..(i + n)} = 0..(n - 1)

\* From the middle of three entries, three calls of down(true) pass the last
\* entry, wrap to the first and end where they started.
C20_Witness ==
    /\ Len(trail) = 5
    /\ Len(trail[2].shown) = 3 /\ trail[2].selected = 1
    /\ Repeated("down", 2, 3)
    /\ trail[3].selected = 2 /\ trail[4].selected = 0 /\ trail[5].selected = 1

\* C18: a direct call of renderScrollbar with n > 0, 0 <= low <= high <= n
\* and h > 0 maps each end by RoundHalfUp, and when the two rows differ the
\* thumb is exactly from the one to the other; the column has h rows, thumb
\* on the rows of the interval and track on the rest.
C18_ThumbIsRoundedHalfUp ==
    scroll.done =>
        LET slow  == RoundHalfUp(scroll.low, scroll.n, scroll.height)
            shigh == RoundHalfUp(scroll.high, scroll.n, scroll.height)
        IN  /\ Len(scroll.bar) = scroll.height
            /\ \A i \in 1..scroll.height :
                  scroll.bar[i] = "thumb"
                  <=> (scroll.thumb[1] <= i - 1 /\ i - 1 < scroll.thumb[2])
            /\ slow # shigh => scroll.thumb = <<slow, shigh>>
====
